---- MODULE Spec2Model ----
(***************************************************************************)
(* Model of the batch CPU-scheduling simulator of src/main.go: main loads  *)
(* a process table and runs FCFSSchedule, SJFSchedule, SJFPrioritySchedule *)
(* and RRSchedule over it, in that order.                                  *)
(*                                                                         *)
(* Indices: Go slices are 0-based, TLA+ sequences 1-based.  Index k of the *)
(* model is index k-1 of the code, and the model's index 0 is the code's   *)
(* -1 ("no process").  processes[0] in the model is therefore the code's   *)
(* processes[-1]: an index out of range, which panics.                     *)
(*                                                                         *)
(* The float64 accumulators hold sums of small integers and are kept as    *)
(* integers; a schedule row is the sequence of its seven printed columns.  *)
(***************************************************************************)
EXTENDS Integers, Sequences, FiniteSets

\* ---------------------------------------------------------------- bounds
\* Largest number of processes in a generated table.
MaxProcs == 2
\* Largest burst of a generated table (FCFS, SJF, SJF-Priority).
MaxBurst == 3
\* Largest arrival time of a generated table.
MaxArrival == 2
\* Largest burst of the single-process Round-Robin tables.
MaxSingleBurst == 8
\* Ticks after which the model stops following an SJF loop that the code
\* would run for ever (it never binds on a loop that ends).
MaxTick == 16

\* ------------------------------------------------------ program constants
\* RRSchedule: QuantumTime = 3
QuantumTime == 3
\* The pass cap one short.
RRPassCapShort == 1000 - 1
\* RRSchedule: for tick < 1000
RRPassCap == 1000
\* SJFSchedule / SJFPrioritySchedule: ShortestJobBurst := 100000
ShortestJobBurstInit == 100000
\* SJFPrioritySchedule: ShortestJobPriority := 100000
ShortestJobPriorityInit == 100000

\* ------------------------------------------------------------ input sets
Arrivals == 0..MaxArrival
Bursts == 1..MaxBurst
Priorities == {0, 1}
\* Round-Robin tables: a burst below, equal to and above the quantum.
RRBursts == {QuantumTime - 1, QuantumTime, QuantumTime + 1}
RRArrivals == {0, 1}

\* type Process struct
Process(id, arr, burst, pri) ==
    [ProcessID |-> id, ArrivalTime |-> arr, BurstDuration |-> burst, Priority |-> pri]

\* All tables of n processes with the given attribute sets; ProcessID is
\* the row number.
TablesOf(n, arrs, bursts, pris) ==
    { [k \in 1..n |-> Process(k, f[k][1], f[k][2], f[k][3])] :
        f \in [1..n -> arrs \X bursts \X pris] }

\* The FCFS example table of the specification: (ID, arrival, burst) =
\* (1,0,5), (2,2,3), (3,4,2).
ExampleTable == << Process(1, 0, 5, 0), Process(2, 2, 3, 0), Process(3, 4, 2, 0) >>

Tables == UNION { TablesOf(n, Arrivals, Bursts, Priorities) : n \in 1..MaxProcs }

\* Tables with a burst or a priority beyond the scan's start values.
SentinelTables ==
    { << Process(1, 0, ShortestJobBurstInit + 1, 0) >>,
      << Process(1, 0, ShortestJobBurstInit + 1, 0), Process(2, 1, 2, 0) >>,
      << Process(1, 0, ShortestJobBurstInit + 1, ShortestJobPriorityInit),
         Process(2, 0, ShortestJobBurstInit + 1, ShortestJobPriorityInit) >> }

SingleTables == { << Process(1, 0, b, 0) >> : b \in 1..MaxSingleBurst }

\* The largest burst that the passes of Round-Robin can consume.
CapBurst == QuantumTime * RRPassCap

\* Tables with bursts at and beyond what Round-Robin can consume.
CapTables ==
    { << Process(1, 0, CapBurst, 0) >>,
      << Process(1, 0, CapBurst + 1, 0) >>,
      << Process(1, 0, CapBurst + 1, 0), Process(2, 1, CapBurst, 0) >> }

RRTables ==
    SingleTables \cup CapTables \cup
    UNION { TablesOf(n, RRArrivals, RRBursts, {0}) : n \in 1..MaxProcs }

\* ------------------------------------------------------------- variables
VARIABLES
    input,               \* command line and file given to main
    caller,              \* "main", or "direct" for a call of one scheduler
    pc,                  \* position of the program
    processes,           \* the process table ([]Process)
    out,                 \* what has been written to the output so far
    i,                   \* FCFS / RR: position of the range loop
    tick,                \* SJF: current tick; RR: pass counter
    serviceTime, waitingTime,
    totalWait, totalTurnaround, lastCompletion,
    schedule, gantt,
    RemainingBurst, lastGanttIndex, lastGanttStartTime, totalBurstTime,
    ShortestJobIndex,
    OGBurst,
    arg,                 \* history: the table as passed to the running scheduler
    ran                  \* history: ran[t+1] is the index that executed at tick t (0: idle)

locals == << i, tick, serviceTime, waitingTime, totalWait, totalTurnaround,
             lastCompletion, schedule, gantt, RemainingBurst, lastGanttIndex,
             lastGanttStartTime, totalBurstTime, ShortestJobIndex, OGBurst, arg, ran >>

vars == << input, caller, pc, processes, out, locals >>

N == Len(processes)

\* A nil row of schedule (make([][]string, len(processes))).
NoRow == << >>

\* The seven columns of a schedule row: ID, Priority, Burst, Arrival, Wait,
\* Turnaround, Exit.
Row(id, pri, burst, arr, wait, turnaround, completion) ==
    << id, pri, burst, arr, wait, turnaround, completion >>

ColBurst == 3
ColArrival == 4
ColWait == 5
ColTurnaround == 6
ColExit == 7

\* type TimeSlice struct
TimeSlice(pid, start, stop) == [PID |-> pid, Start |-> start, Stop |-> stop]

\* Return for a main that calls Round-Robin right after FCFS.
ReturnRoundRobinEarly(next) ==
    IF caller = "main" THEN (IF next = "call_SJF" THEN "call_RR" ELSE next) ELSE "returned"

\* Where a scheduler goes when it returns: main calls the next one.
Return(next) == IF caller = "main" THEN next ELSE "returned"

\* outputTitle, outputGantt, outputSchedule: the averages are the totals
\* over count, throughput is count over lastCompletion.
Report(title) ==
    [title |-> title, gantt |-> gantt, rows |-> schedule,
     aveWait |-> << totalWait, N >>, aveTurnaround |-> << totalTurnaround, N >>,
     aveThroughput |-> << N, lastCompletion >>]

\* The locals of a scheduler that has not declared them.
NoLocals ==
    /\ i = 0 /\ tick = 0 /\ serviceTime = 0 /\ waitingTime = 0
    /\ totalWait = 0 /\ totalTurnaround = 0 /\ lastCompletion = 0
    /\ schedule = << >> /\ gantt = << >> /\ RemainingBurst = << >>
    /\ lastGanttIndex = 0 /\ lastGanttStartTime = 0 /\ totalBurstTime = 0
    /\ ShortestJobIndex = 0 /\ OGBurst = << >> /\ arg = << >> /\ ran = << >>

\* Entering a scheduler: its var block, every accumulator zero.
Enter(name) ==
    /\ pc' = name
    /\ arg' = processes
    /\ serviceTime' = 0 /\ waitingTime' = 0
    /\ totalWait' = 0 /\ totalTurnaround' = 0 /\ lastCompletion' = 0
    /\ schedule' = [k \in 1..N |-> NoRow]
    /\ gantt' = << >>
    /\ ran' = << >>
    /\ ShortestJobIndex' = 0
    /\ UNCHANGED << input, caller, processes, out >>

\* ------------------------------------------------------------------ FCFS
FCFSCall ==
    /\ pc = "call_FCFS"
    /\ Enter("FCFS")
    /\ i' = 1 /\ tick' = 0
    /\ RemainingBurst' = << >> /\ OGBurst' = << >>
    /\ lastGanttIndex' = 0 /\ lastGanttStartTime' = 0 /\ totalBurstTime' = 0

\* FCFSWait without the test on ArrivalTime.
FCFSWaitAlways(p) == serviceTime - p.ArrivalTime

\* waitingTime of the iteration for process p.
FCFSWait(p) ==
    IF p.ArrivalTime > 0 THEN serviceTime - p.ArrivalTime ELSE waitingTime

\* One iteration of "for i := range processes".
FCFSStep ==
    /\ pc = "FCFS"
    /\ i <= N
    /\ LET p == processes[i]
           w == FCFSWait(p)
           start == w + p.ArrivalTime
           turnaround == p.BurstDuration + w
           completion == p.BurstDuration + p.ArrivalTime + w
       IN /\ waitingTime' = w
          /\ totalWait' = totalWait + w
          /\ totalTurnaround' = totalTurnaround + turnaround
          /\ lastCompletion' = completion
          /\ schedule' = [schedule EXCEPT ![i] =
                 Row(p.ProcessID, p.Priority, p.BurstDuration, p.ArrivalTime,
                     w, turnaround, completion)]
          /\ serviceTime' = serviceTime + p.BurstDuration
          /\ gantt' = Append(gantt, TimeSlice(p.ProcessID, start, serviceTime'))
    /\ i' = i + 1
    /\ UNCHANGED << input, caller, pc, processes, out, tick, RemainingBurst,
                    lastGanttIndex, lastGanttStartTime, totalBurstTime,
                    ShortestJobIndex, OGBurst, arg, ran >>

FCFSOutput ==
    /\ pc = "FCFS"
    /\ i > N
    /\ out' = Append(out, Report("First-come, first-serve"))
    /\ pc' = Return("call_SJF")
    /\ UNCHANGED << input, caller, processes, locals >>

\* ------------------------------------------------- SJF and SJF-Priority
\* Both schedulers: lastGanttIndex := -1, lastGanttStartTime := 0, and the
\* loop that sums the bursts into totalBurstTime and copies them into
\* RemainingBurst.
RECURSIVE SumBursts(_)
SumBursts(t) ==
    IF t = << >> THEN 0 ELSE t[1].BurstDuration + SumBursts(Tail(t))

TickCall(name) ==
    /\ Enter(name)
    /\ lastGanttIndex' = 0
    /\ lastGanttStartTime' = 0
    /\ totalBurstTime' = SumBursts(processes)
    /\ RemainingBurst' = [k \in 1..N |-> processes[k].BurstDuration]
    /\ tick' = 0
    /\ i' = 0 /\ OGBurst' = << >>

\* SJFScan with < for <=: the first of several shortest processes is kept.
RECURSIVE SJFScanFirstTie(_, _, _)
SJFScanFirstTie(k, idx, best) ==
    IF k > N THEN idx
    ELSE IF /\ RemainingBurst[k] > 0
            /\ processes[k].ArrivalTime <= tick
            /\ RemainingBurst[k] < best
         THEN SJFScanFirstTie(k + 1, k, RemainingBurst[k])
         ELSE SJFScanFirstTie(k + 1, idx, best)

\* SJFSchedule, "Find shortest process that exists": the scan from index k
\* on, with ShortestJobIndex = idx and ShortestJobBurst = best so far.
RECURSIVE SJFScan(_, _, _)
SJFScan(k, idx, best) ==
    IF k > N THEN idx
    ELSE IF /\ RemainingBurst[k] > 0
            /\ processes[k].ArrivalTime <= tick
            /\ RemainingBurst[k] <= best
         THEN SJFScan(k + 1, k, RemainingBurst[k])
         ELSE SJFScan(k + 1, idx, best)

SJFSelect == SJFScan(1, 0, ShortestJobBurstInit)

\* SJFPrioritySchedule: the scan from index k on, with ShortestJobIndex =
\* idx, ShortestJobBurst = best and ShortestJobPriority = pri so far.
RECURSIVE SJFPScan(_, _, _, _)
SJFPScan(k, idx, best, pri) ==
    IF k > N THEN idx
    ELSE IF RemainingBurst[k] > 0 /\ processes[k].ArrivalTime <= tick
         THEN IF processes[k].Priority <= pri /\ processes[k].Priority < pri
              THEN SJFPScan(k + 1, k, processes[k].BurstDuration, processes[k].Priority)
              ELSE IF RemainingBurst[k] < best
                   THEN SJFPScan(k + 1, k, RemainingBurst[k], processes[k].Priority)
                   ELSE SJFPScan(k + 1, idx, best, pri)
         ELSE SJFPScan(k + 1, idx, best, pri)

SJFPSelect == SJFPScan(1, 0, ShortestJobBurstInit, ShortestJobPriorityInit)

\* "Take care of gantt table": whether this tick closes a slice, and
\* whether closing it indexes processes with -1.
GanttCloses(sel) == lastGanttIndex # sel \/ tick = totalBurstTime - 1

GanttPanics(sel) == GanttCloses(sel) /\ tick = totalBurstTime - 1 /\ lastGanttIndex = 0

\* The Gantt bookkeeping of a tick that does not panic.
GanttUpdate(sel) ==
    IF GanttCloses(sel)
    THEN /\ gantt' =
              IF tick = totalBurstTime - 1
              THEN Append(gantt, TimeSlice(processes[lastGanttIndex].ProcessID,
                                           lastGanttStartTime, tick + 1))
              ELSE IF lastGanttIndex # 0
                   THEN Append(gantt, TimeSlice(processes[lastGanttIndex].ProcessID,
                                                lastGanttStartTime, tick))
                   ELSE gantt
         /\ lastGanttStartTime' = tick
         /\ lastGanttIndex' = sel
    ELSE UNCHANGED << gantt, lastGanttStartTime, lastGanttIndex >>

\* The loop is entered with tick < totalBurstTime.
TickGuard(name) == pc = name /\ tick < totalBurstTime /\ tick < MaxTick

\* The tick closes a slice of processes[-1]: the program panics.
TickPanic(name, sel) ==
    /\ TickGuard(name)
    /\ GanttPanics(sel)
    /\ ShortestJobIndex' = sel
    /\ pc' = "panic"
    /\ UNCHANGED << input, caller, processes, out, i, tick, serviceTime, waitingTime,
                    totalWait, totalTurnaround, lastCompletion, schedule, gantt,
                    RemainingBurst, lastGanttIndex, lastGanttStartTime,
                    totalBurstTime, OGBurst, arg, ran >>

\* A tick with no process selected: the horizon grows by one.
TickIdle(name, sel) ==
    /\ TickGuard(name)
    /\ ~GanttPanics(sel)
    /\ sel = 0
    /\ ShortestJobIndex' = sel
    /\ GanttUpdate(sel)
    /\ tick' = tick + 1
    /\ totalBurstTime' = totalBurstTime + 1
    /\ ran' = Append(ran, 0)
    /\ UNCHANGED << input, caller, pc, processes, out, i, serviceTime, waitingTime,
                    totalWait, totalTurnaround, lastCompletion, schedule,
                    RemainingBurst, OGBurst, arg >>

\* TickCompletion without the arrival time.
TickCompletionNoArrival(p, waitTime) == p.BurstDuration + waitTime

\* lastCompletion of a process that is done: its burst, arrival and wait.
TickCompletion(p, waitTime) == p.BurstDuration + p.ArrivalTime + waitTime

\* A tick that runs process sel, and schedules it if it is done.
TickRun(name, sel) ==
    /\ TickGuard(name)
    /\ ~GanttPanics(sel)
    /\ sel # 0
    /\ ShortestJobIndex' = sel
    /\ GanttUpdate(sel)
    /\ tick' = tick + 1
    /\ RemainingBurst' = [RemainingBurst EXCEPT ![sel] = @ - 1]
    /\ ran' = Append(ran, sel)
    /\ LET p == processes[sel]
           waitTime == tick' - p.ArrivalTime - p.BurstDuration
       IN IF RemainingBurst'[sel] = 0
          THEN /\ totalTurnaround' = totalTurnaround + (tick' - p.ArrivalTime)
               /\ totalWait' = totalWait + waitTime
               /\ schedule' = [schedule EXCEPT ![sel] =
                      Row(p.ProcessID, p.Priority, p.BurstDuration, p.ArrivalTime,
                          tick' - p.ArrivalTime - p.BurstDuration,
                          tick' - p.ArrivalTime, tick')]
               /\ lastCompletion' = TickCompletion(p, waitTime)
          ELSE UNCHANGED << totalTurnaround, totalWait, schedule, lastCompletion >>
    /\ UNCHANGED << input, caller, pc, processes, out, i, serviceTime, waitingTime,
                    totalBurstTime, OGBurst, arg >>

TickOutput(name, title, next) ==
    /\ pc = name
    /\ tick >= totalBurstTime
    /\ out' = Append(out, Report(title))
    /\ pc' = Return(next)
    /\ UNCHANGED << input, caller, processes, locals >>

SJFCall == pc = "call_SJF" /\ TickCall("SJF")
SJFPanic == TickPanic("SJF", SJFSelect)
SJFIdle == TickIdle("SJF", SJFSelect)
SJFRun == TickRun("SJF", SJFSelect)
SJFOutput == TickOutput("SJF", "Shortest-job-first", "call_SJFP")

SJFPCall == pc = "call_SJFP" /\ TickCall("SJFP")
SJFPPanic == TickPanic("SJFP", SJFPSelect)
SJFPIdle == TickIdle("SJFP", SJFPSelect)
SJFPRun == TickRun("SJFP", SJFPSelect)
SJFPOutput == TickOutput("SJFP", "Priority", "call_RR")

\* ----------------------------------------------------------- Round-Robin
RRCall ==
    /\ pc = "call_RR"
    /\ Enter("RR")
    /\ OGBurst' = [k \in 1..N |-> 0]
    /\ tick' = 0
    /\ i' = 1
    /\ RemainingBurst' = << >>
    /\ lastGanttIndex' = 0 /\ lastGanttStartTime' = 0 /\ totalBurstTime' = 0

\* RRNextIndex without the second branch: a burst below the quantum is
\* skipped.
RECURSIVE RRNextIndexFullOnly(_)
RRNextIndexFullOnly(k) ==
    IF k > N THEN 0
    ELSE IF processes[k].BurstDuration >= QuantumTime
         THEN k
         ELSE RRNextIndexFullOnly(k + 1)

\* The range loop from index k on: the first process that one of the two
\* branches takes (BurstDuration >= QuantumTime, or 0 < BurstDuration <
\* QuantumTime); 0 when the rest of the pass skips every process.
RECURSIVE RRNextIndex(_)
RRNextIndex(k) ==
    IF k > N THEN 0
    ELSE IF \/ processes[k].BurstDuration >= QuantumTime
            \/ (processes[k].BurstDuration < QuantumTime /\ processes[k].BurstDuration > 0)
         THEN k
         ELSE RRNextIndex(k + 1)

\* RROriginal without the test on OGBurst: the burst that is left.
RROriginalCurrent(k) == processes[k].BurstDuration

\* The Burst column of the row: OGBurst[k], set from BurstDuration the
\* first time the process is visited.
RROriginal(k) == IF OGBurst[k] = 0 THEN processes[k].BurstDuration ELSE OGBurst[k]

\* RRDone without the test: every slice counts.
RRDoneAlways(left) == TRUE

\* "if processes[i].BurstDuration == 0" after the decrement: the process
\* is done and its wait and turnaround go into the totals.
RRDone(left) == left = 0

\* RRWait as First-come-first-serve computes it: a process that arrived
\* at 0 keeps the wait left by the preceding slice.
RRWaitCarried(p) ==
    IF p.ArrivalTime > 0 THEN serviceTime - p.ArrivalTime ELSE waitingTime

\* "waitingTime = serviceTime - processes[i].ArrivalTime" at the head of
\* either branch.
RRWait(p) == serviceTime - p.ArrivalTime

\* The body of either branch for process k, which consumes work units.
RRVisit(k, work) ==
    LET p == processes[k]
        wait0 == RRWait(p)
        og == RROriginal(k)
        start == wait0 + p.ArrivalTime
        turnaround == work + wait0
        completion == work + p.ArrivalTime + wait0
        wait1 == turnaround - og
    IN /\ OGBurst' = [OGBurst EXCEPT ![k] = og]
       /\ lastCompletion' = completion
       /\ waitingTime' = wait1
       /\ schedule' = [schedule EXCEPT ![k] =
              Row(p.ProcessID, p.Priority, og, p.ArrivalTime, wait1, turnaround, completion)]
       /\ serviceTime' = serviceTime + work
       /\ gantt' = Append(gantt, TimeSlice(p.ProcessID, start, serviceTime'))
       /\ processes' = [processes EXCEPT ![k].BurstDuration = @ - work]
       /\ IF RRDone(processes'[k].BurstDuration)
          THEN /\ totalWait' = totalWait + wait1
               /\ totalTurnaround' = totalTurnaround + turnaround
          ELSE UNCHANGED << totalWait, totalTurnaround >>
       /\ i' = k + 1
       /\ UNCHANGED << input, caller, pc, out, tick, RemainingBurst, lastGanttIndex,
                       lastGanttStartTime, totalBurstTime, ShortestJobIndex, arg, ran >>

\* A visit that consumes a full quantum.
RRFull ==
    /\ pc = "RR" /\ tick < RRPassCap
    /\ LET k == RRNextIndex(i)
       IN /\ k # 0
          /\ processes[k].BurstDuration >= QuantumTime
          /\ RRVisit(k, QuantumTime)

\* A visit that consumes the rest of the burst.
RRPartial ==
    /\ pc = "RR" /\ tick < RRPassCap
    /\ LET k == RRNextIndex(i)
       IN /\ k # 0
          /\ processes[k].BurstDuration < QuantumTime
          /\ RRVisit(k, processes[k].BurstDuration)

\* The rest of the pass visits nothing: tick++.
RRNextPass ==
    /\ pc = "RR" /\ tick < RRPassCap
    /\ RRNextIndex(i) = 0
    /\ tick' = tick + 1
    /\ i' = 1
    /\ UNCHANGED << input, caller, pc, processes, out, serviceTime, waitingTime,
                    totalWait, totalTurnaround, lastCompletion, schedule, gantt,
                    RemainingBurst, lastGanttIndex, lastGanttStartTime,
                    totalBurstTime, ShortestJobIndex, OGBurst, arg, ran >>

RROutput ==
    /\ pc = "RR" /\ tick >= RRPassCap
    /\ out' = Append(out, Report("Round-robin"))
    /\ pc' = Return("exit")
    /\ UNCHANGED << input, caller, processes, locals >>

\* ------------------------------------------------------------------ main
\* A cell of the input file: ok says whether strconv.ParseInt accepts its
\* text, val is the integer it then yields.
Cell(n) == [ok |-> TRUE, val |-> n]
BadCell == [ok |-> FALSE, val |-> 0]

\* The rows of a file that holds table t, with or without the Priority
\* column.
Rows4(t) == [k \in 1..Len(t) |->
    << Cell(t[k].ProcessID), Cell(t[k].BurstDuration), Cell(t[k].ArrivalTime),
       Cell(t[k].Priority) >>]
Rows3(t) == [k \in 1..Len(t) |->
    << Cell(t[k].ProcessID), Cell(t[k].BurstDuration), Cell(t[k].ArrivalTime) >>]

\* os.Args has argc entries; opens: os.Open succeeds; quoting: the file is
\* well-quoted CSV; rows: its records.
Input(argc, opens, quoting, rows) ==
    [argc |-> argc, opens |-> opens, quoting |-> quoting, rows |-> rows]

MainTables == UNION { TablesOf(n, RRArrivals, RRBursts \cup {1}, {0}) : n \in 1..MaxProcs }

GoodInputs ==
    { Input(2, TRUE, TRUE, Rows4(t)) : t \in MainTables } \cup
    { Input(2, TRUE, TRUE, Rows3(t)) : t \in SingleTables } \cup
    { Input(2, TRUE, TRUE, Rows4(<< Process(1, 0, 2, 1), Process(2, 0, 4, 0) >>)) }

BadInputs ==
    LET t == << Process(1, 0, 2, 0), Process(2, 1, 3, 0) >>
    IN { Input(1, TRUE, TRUE, Rows3(t)), Input(3, TRUE, TRUE, Rows3(t)),
         Input(2, FALSE, TRUE, Rows3(t)), Input(2, TRUE, FALSE, Rows3(t)),
         \* a record with another number of fields than the first
         Input(2, TRUE, TRUE, << Rows3(t)[1], Rows4(t)[2] >>),
         \* a field that is no integer
         Input(2, TRUE, TRUE, [Rows3(t) EXCEPT ![2][2] = BadCell]),
         Input(2, TRUE, TRUE, [Rows4(t) EXCEPT ![1][4] = BadCell]),
         \* records of two fields
         Input(2, TRUE, TRUE, << << Cell(1), Cell(2) >> >>),
         \* an empty file
         Input(2, TRUE, TRUE, << >>) }

\* openProcessingFile
OpenFails == input.argc # 2 \/ ~input.opens

MainOpenFail ==
    /\ pc = "open"
    /\ OpenFails
    /\ pc' = "fatal"
    /\ UNCHANGED << input, caller, processes, out, locals >>

MainOpen ==
    /\ pc = "open"
    /\ ~OpenFails
    /\ pc' = "load"
    /\ UNCHANGED << input, caller, processes, out, locals >>

\* csv.Reader.ReadAll: a quoting error, or a record whose number of fields
\* differs from the first record's.
ReadAllFails ==
    \/ ~input.quoting
    \/ \E k \in 1..Len(input.rows) : Len(input.rows[k]) # Len(input.rows[1])

\* rows[i][0..2] on a record of fewer than three fields.
LoadIndexPanics == \E k \in 1..Len(input.rows) : Len(input.rows[k]) < 3

\* mustStrToInt exits on a field that is read and is no integer.
LoadExits ==
    \E k \in 1..Len(input.rows) : \E c \in 1..Len(input.rows[k]) :
        c <= 4 /\ (c = 4 => Len(input.rows[k]) = 4) /\ ~input.rows[k][c].ok

\* loadProcesses: columns ProcessID, BurstDuration, ArrivalTime[, Priority].
LoadedTable ==
    [k \in 1..Len(input.rows) |->
        Process(input.rows[k][1].val, input.rows[k][3].val, input.rows[k][2].val,
                IF Len(input.rows[k]) = 4 THEN input.rows[k][4].val ELSE 0)]

MainLoadFail ==
    /\ pc = "load"
    /\ ReadAllFails \/ LoadIndexPanics \/ LoadExits
    /\ pc' = IF ReadAllFails \/ ~LoadIndexPanics THEN "fatal" ELSE "panic"
    /\ UNCHANGED << input, caller, processes, out, locals >>

MainLoad ==
    /\ pc = "load"
    /\ ~(ReadAllFails \/ LoadIndexPanics \/ LoadExits)
    /\ processes' = LoadedTable
    /\ pc' = "call_FCFS"
    /\ UNCHANGED << input, caller, out, locals >>

\* -------------------------------------------------------- specifications
NoInput == Input(0, FALSE, FALSE, << >>)

\* The program as started from the command line.
Init ==
    /\ input \in GoodInputs \cup BadInputs
    /\ caller = "main"
    /\ pc = "open"
    /\ processes = << >>
    /\ out = << >>
    /\ NoLocals

\* The steps of the schedulers that a run of main can take.  SJFPPanic is
\* not among them: both tick loops are idle at the same ticks, so a table
\* on which SJF-Priority would panic makes SJF panic first and main never
\* calls SJF-Priority on it (SJFPPanicNotInMain, an invariant of Spec).
SchedulersOfMain ==
    \/ FCFSCall \/ FCFSStep \/ FCFSOutput
    \/ SJFCall \/ SJFPanic \/ SJFIdle \/ SJFRun \/ SJFOutput
    \/ SJFPCall \/ SJFPIdle \/ SJFPRun \/ SJFPOutput
    \/ RRCall \/ RRFull \/ RRPartial \/ RRNextPass \/ RROutput

Schedulers == SchedulersOfMain \/ SJFPPanic

Next == MainOpenFail \/ MainOpen \/ MainLoadFail \/ MainLoad \/ SchedulersOfMain

SJFPPanicNotInMain ==
    (caller = "main" /\ pc = "SJFP" /\ tick < totalBurstTime) => ~GanttPanics(SJFPSelect)

Spec == Init /\ [][Next]_vars

\* One scheduler called on a table, as a caller of the exported functions
\* does.
InitCalls ==
    /\ input = NoInput
    /\ caller = "direct"
    /\ \/ pc \in {"call_FCFS"} /\ processes \in Tables \cup {ExampleTable}
       \/ pc \in {"call_SJF", "call_SJFP"} /\ processes \in Tables \cup SentinelTables
       \/ pc = "call_RR" /\ processes \in RRTables
    /\ out = << >>
    /\ NoLocals

SpecCalls == InitCalls /\ [][Schedulers]_vars

\* ------------------------------------------------------------ properties
\* The model's tick cap stops only the loops that the code never leaves.
TickCapUnused ==
    (pc \in {"SJF", "SJFP"} /\ SumBursts(arg) <= ShortestJobBurstInit)
        => (tick < MaxTick \/ tick >= totalBurstTime)

Written(k) == schedule[k] # NoRow

\* C1: every schedule row that has been produced, under each of the four
\* schedulers and after every Round-Robin slice, has CompletionTime =
\* ArrivalTime + WaitingTime + OriginalBurst and TurnaroundTime =
\* WaitingTime + OriginalBurst, the original burst being the one the
\* process had when the scheduler was called.
RowsConsistent ==
    \A k \in 1..Len(schedule) :
        Written(k) =>
            /\ schedule[k][ColExit] =
                   arg[k].ArrivalTime + schedule[k][ColWait] + arg[k].BurstDuration
            /\ schedule[k][ColTurnaround] = schedule[k][ColWait] + arg[k].BurstDuration

\* Round-Robin has rewritten the row of a process that is not finished, in
\* a table of several processes, after at least two slices.
RowsConsistentWitness ==
    /\ pc = "RR" /\ N > 1 /\ Len(gantt) >= 2
    /\ \E k \in 1..N :
          /\ Written(k)
          /\ processes[k].BurstDuration > 0
          /\ processes[k].BurstDuration < arg[k].BurstDuration
          /\ arg[k].ArrivalTime > 0

\* The processes that can run at the current tick of SJF / SJF-Priority.
Eligible == { k \in 1..N : RemainingBurst[k] > 0 /\ processes[k].ArrivalTime <= tick }

\* C2: at every tick of SJF the selected process is eligible and no
\* eligible process has a smaller remaining burst, and the tick is idle
\* only when no process is eligible.
SJFPicksShortest ==
    [][ (pc = "SJF" /\ tick' = tick + 1) =>
            IF ShortestJobIndex' = 0
            THEN Eligible = {}
            ELSE /\ ShortestJobIndex' \in Eligible
                 /\ \A j \in Eligible :
                        RemainingBurst[ShortestJobIndex'] <= RemainingBurst[j] ]_vars

\* The selection of SJF on the tables whose bursts do not exceed the start
\* value of the scan.
SJFPicksShortestBelowStart ==
    [][ (pc = "SJF" /\ tick' = tick + 1
            /\ \A k \in 1..N : processes[k].BurstDuration <= ShortestJobBurstInit) =>
            IF ShortestJobIndex' = 0
            THEN Eligible = {}
            ELSE /\ ShortestJobIndex' \in Eligible
                 /\ \A j \in Eligible :
                        RemainingBurst[ShortestJobIndex'] <= RemainingBurst[j] ]_vars

\* C3: at a tick of SJF-Priority with exactly two eligible processes of
\* different priority, the one of lower priority value is selected.
SJFPLowerPriorityWins ==
    [][ (pc = "SJFP" /\ tick' = tick + 1) =>
            \A a, b \in Eligible :
                (Eligible = {a, b} /\ processes[a].Priority < processes[b].Priority)
                    => ShortestJobIndex' = a ]_vars

\* C4: at a tick of SJF-Priority with exactly two eligible processes of
\* equal priority and different remaining bursts, the one with the smaller
\* remaining burst is selected.
SJFPShorterWinsTie ==
    [][ (pc = "SJFP" /\ tick' = tick + 1) =>
            \A a, b \in Eligible :
                (/\ Eligible = {a, b}
                 /\ processes[a].Priority = processes[b].Priority
                 /\ RemainingBurst[a] < RemainingBurst[b])
                    => ShortestJobIndex' = a ]_vars

\* C5: on a well-formed table SJF and SJF-Priority never fail: the Gantt
\* bookkeeping never closes a slice for index -1.
TickLoopsNeverPanic == pc # "panic"

\* C6: a run of main ends either with a fatal error before any scheduler
\* has started, or after all four schedulers have reported, in the order
\* FCFS, SJF, SJF-Priority, Round-Robin.
AllOrNothing ==
    (caller = "main" /\ pc \in {"fatal", "panic", "exit"}) =>
        \/ pc # "exit" /\ out = << >> /\ arg = << >>
        \/ /\ pc = "exit"
           /\ [k \in 1..Len(out) |-> out[k].title] =
                  << "First-come, first-serve", "Shortest-job-first", "Priority",
                     "Round-robin" >>

IdleTicks == Cardinality({ t \in 1..Len(ran) : ran[t] = 0 })

\* C7: in SJF and SJF-Priority on a table whose arrivals are all > 0, the
\* horizon at the end is the sum of the bursts plus the number of idle
\* ticks, and every tick inside a Gantt slice is a tick at which the
\* slice's process executed (no slice covers an idle tick).
IdleTicksNotInGantt ==
    (pc \in {"SJF", "SJFP"} /\ \A k \in 1..N : arg[k].ArrivalTime > 0) =>
        /\ tick >= totalBurstTime => totalBurstTime = SumBursts(arg) + IdleTicks
        /\ \A j \in 1..Len(gantt) : \A t \in gantt[j].Start .. gantt[j].Stop - 1 :
               /\ t + 1 <= Len(ran)
               /\ ran[t + 1] # 0
               /\ processes[ran[t + 1]].ProcessID = gantt[j].PID

\* C8: FCFS emits one Gantt slice per process, in input order, and each
\* slice after the first starts where the one before it stops.
FCFSBackToBack ==
    pc = "FCFS" =>
        /\ Len(gantt) = i - 1
        /\ \A j \in 1..Len(gantt) :
               /\ gantt[j].PID = processes[j].ProcessID
               /\ j > 1 => gantt[j].Start = gantt[j - 1].Stop

\* Sum of the bursts of the first k processes of the table passed.
RECURSIVE BurstsUpTo(_)
BurstsUpTo(k) == IF k = 0 THEN 0 ELSE arg[k].BurstDuration + BurstsUpTo(k - 1)

\* C9: in FCFS a process with ArrivalTime > 0 waits the bursts before it
\* minus its arrival and completes at the sum of the bursts up to it; a
\* process with ArrivalTime = 0 has the wait of the process before it (0
\* for the first) and completes at that wait plus its burst.  The table
\* (1,0,5), (2,2,3), (3,4,2) gives waits 0, 3, 4 and completions 5, 8, 10.
FCFSClosedForm ==
    pc = "FCFS" =>
        /\ \A k \in 1..N : Written(k) <=> k < i
        /\ \A k \in 1..(i - 1) :
               IF arg[k].ArrivalTime > 0
               THEN /\ schedule[k][ColWait] = BurstsUpTo(k - 1) - arg[k].ArrivalTime
                    /\ schedule[k][ColExit] = BurstsUpTo(k)
               ELSE LET carried == IF k = 1 THEN 0 ELSE schedule[k - 1][ColWait]
                    IN /\ schedule[k][ColWait] = carried
                       /\ schedule[k][ColExit] = carried + arg[k].BurstDuration
        /\ (arg = ExampleTable /\ i > N) =>
               /\ [k \in 1..N |-> schedule[k][ColWait]] = << 0, 3, 4 >>
               /\ [k \in 1..N |-> schedule[k][ColExit]] = << 5, 8, 10 >>

\* FCFS has finished a table in which a process after the first arrives at
\* 0 behind one that waited.
FCFSClosedFormWitness ==
    /\ pc = "FCFS" /\ i > N /\ N >= 2
    /\ \E k \in 2..N :
          /\ arg[k].ArrivalTime = 0
          /\ arg[k - 1].ArrivalTime > 0
          /\ schedule[k][ColWait] # 0

Min(a, b) == IF a < b THEN a ELSE b

\* C10: Round-Robin on a single process with ArrivalTime 0 and burst B
\* ends with ceil(B/3) slices that tile 0..B, each of length 3 but a last
\* one of length B mod 3 when that is not 0, and a row with WaitingTime 0,
\* TurnaroundTime B and CompletionTime B; B = 7 gives stops 3, 6, 7.
RRSingleProcess ==
    (pc = "RR" /\ tick >= RRPassCap /\ N = 1 /\ arg[1].ArrivalTime = 0) =>
        LET B == arg[1].BurstDuration
        IN /\ Len(gantt) = (B + 2) \div 3
           /\ \A j \in 1..Len(gantt) :
                  /\ gantt[j].PID = arg[1].ProcessID
                  /\ gantt[j].Start = 3 * (j - 1)
                  /\ gantt[j].Stop = Min(3 * j, B)
           /\ schedule[1][ColWait] = 0
           /\ schedule[1][ColTurnaround] = B
           /\ schedule[1][ColExit] = B
           /\ B = 7 => [j \in 1..Len(gantt) |-> gantt[j].Stop] = << 3, 6, 7 >>

\* Round-Robin has finished its passes over a single process of burst 7.
RRSingleProcessWitness ==
    /\ pc = "RR" /\ tick >= RRPassCap /\ N = 1
    /\ arg[1].ArrivalTime = 0 /\ arg[1].BurstDuration = 7
    /\ Len(gantt) = 3 /\ processes[1].BurstDuration = 0

\* The titles reported so far.
Titles == [k \in 1..Len(out) |-> out[k].title]

\* Process p with its burst replaced by what q has left.
SameButBurst(p, q) ==
    /\ p.ProcessID = q.ProcessID
    /\ p.ArrivalTime = q.ArrivalTime
    /\ p.Priority = q.Priority

\* C11: in a run of main FCFS, SJF and SJF-Priority read the table as it
\* was loaded and change no field of it; Round-Robin changes nothing but
\* BurstDuration, and it is entered after the three others have reported.
TableFrame ==
    [][ caller = "main" =>
          /\ pc \in {"call_FCFS", "FCFS", "call_SJF", "SJF", "call_SJFP", "SJFP", "call_RR"}
                => (processes' = processes /\ processes = LoadedTable)
          /\ pc \in {"FCFS", "SJF", "SJFP"} => arg = LoadedTable
          /\ pc = "RR" =>
                /\ Len(processes') = Len(processes)
                /\ \A k \in 1..N : SameButBurst(processes'[k], processes[k])
                /\ \A k \in 1..N : SameButBurst(processes[k], LoadedTable[k])
          /\ pc' = "RR" =>
                Titles' = << "First-come, first-serve", "Shortest-job-first", "Priority" >>
      ]_vars

\* Round-Robin, called by main, has decremented a burst of the loaded table.
TableFrameWitness ==
    /\ caller = "main" /\ pc = "RR" /\ N > 1
    /\ Len(out) = 3
    /\ \E k \in 1..N : processes[k].BurstDuration < LoadedTable[k].BurstDuration
    /\ \E k \in 1..N : processes[k].BurstDuration = LoadedTable[k].BurstDuration

\* The largest Exit column of the rows written.
MaxExit ==
    CHOOSE m \in { schedule[k][ColExit] : k \in { j \in 1..N : Written(j) } } :
        \A k \in 1..N : Written(k) => schedule[k][ColExit] <= m

\* The index of the row that was written last: FCFS writes the rows in
\* table order, the tick loops write the row of the process that ran at
\* the last tick, Round-Robin the row of the process of the last slice.
LastWritten ==
    IF pc = "FCFS" THEN N
    ELSE IF pc \in {"SJF", "SJFP"} THEN ran[Len(ran)]
    ELSE CHOOSE k \in 1..N : processes[k].ProcessID = gantt[Len(gantt)].PID

\* A scheduler has left its loop and is about to report.
AtReport ==
    \/ pc = "FCFS" /\ i > N
    \/ pc \in {"SJF", "SJFP"} /\ tick >= totalBurstTime
    \/ pc = "RR" /\ tick >= RRPassCap

\* C12: at the end of a run the completion time that divides the count in
\* the throughput is the Exit of the row written last and, for SJF,
\* SJF-Priority and Round-Robin, the largest Exit of all rows.
ThroughputDenominator ==
    (AtReport /\ N >= 1) =>
        /\ Report("")["aveThroughput"] = << N, schedule[LastWritten][ColExit] >>
        /\ pc # "FCFS" => lastCompletion = MaxExit

\* SJF or SJF-Priority is about to report on a table in which the process
\* that finished last is not the last of the table and arrived after 0.
ThroughputDenominatorWitness ==
    /\ pc \in {"SJF", "SJFP"} /\ tick >= totalBurstTime /\ N > 1
    /\ LastWritten < N
    /\ arg[LastWritten].ArrivalTime > 0
    /\ lastCompletion = tick

\* The index that executed at the tick before the current one (0: none).
Running == IF tick > 0 /\ Len(ran) >= tick THEN ran[tick] ELSE 0

\* C13: in SJF a process selected at tick t and not finished is selected
\* again at tick t+1 unless a process arriving exactly at t+1 has a
\* remaining burst strictly smaller than its remaining burst.
SJFKeepsRunning ==
    [][ (pc = "SJF" /\ tick' = tick + 1 /\ Running # 0 /\ RemainingBurst[Running] > 0) =>
            \/ ShortestJobIndex' = Running
            \/ \E q \in 1..N :
                   /\ processes[q].ArrivalTime = tick
                   /\ RemainingBurst[q] < RemainingBurst[Running] ]_vars

\* C13 as amended: ... unless a process arriving exactly at t+1 has a
\* remaining burst strictly smaller than its remaining burst, or equal to
\* it and a later place in the table.
SJFKeepsRunningButForTies ==
    [][ (pc = "SJF" /\ tick' = tick + 1 /\ Running # 0 /\ RemainingBurst[Running] > 0) =>
            \/ ShortestJobIndex' = Running
            \/ \E q \in 1..N :
                   /\ processes[q].ArrivalTime = tick
                   /\ ShortestJobIndex' = q
                   /\ \/ RemainingBurst[q] < RemainingBurst[Running]
                      \/ RemainingBurst[q] = RemainingBurst[Running] /\ q > Running ]_vars

\* SJF has replaced an unfinished process by one that arrived at that tick
\* with the same remaining burst.
SJFKeepsRunningWitness ==
    /\ pc = "SJF" /\ tick >= 2
    /\ LET before == ran[tick - 1]
           now == ran[tick]
       IN /\ before # 0 /\ now # 0 /\ now # before
          /\ processes[now].ArrivalTime = tick - 1
          /\ RemainingBurst[before] > 0
          /\ RemainingBurst[now] + 1 = RemainingBurst[before]

\* The eligible processes of least remaining burst.
Shortest == { k \in Eligible : \A j \in Eligible : RemainingBurst[k] <= RemainingBurst[j] }

\* C14: when several eligible processes share the least remaining burst at
\* a tick of SJF, the one of highest index is selected.
SJFLastTieWins ==
    [][ (pc = "SJF" /\ tick' = tick + 1 /\ Cardinality(Shortest) >= 2) =>
            /\ ShortestJobIndex' \in Shortest
            /\ \A k \in Shortest : k <= ShortestJobIndex' ]_vars

\* The tie rule of SJF on the tables whose bursts do not exceed the start
\* value of the scan.
SJFLastTieWinsBelowStart ==
    [][ (pc = "SJF" /\ tick' = tick + 1 /\ Cardinality(Shortest) >= 2
            /\ \A k \in 1..N : processes[k].BurstDuration <= ShortestJobBurstInit) =>
            /\ ShortestJobIndex' \in Shortest
            /\ \A k \in Shortest : k <= ShortestJobIndex' ]_vars

\* The slices of process k that hold tick t.
SlicesAt(k, t) ==
    { j \in 1..Len(gantt) :
        /\ gantt[j].PID = processes[k].ProcessID
        /\ gantt[j].Start <= t /\ t < gantt[j].Stop }

\* The ticks of the slices of process k, counted per slice.
SliceTicks(k) ==
    { << j, t >> \in (1..Len(gantt)) \X (0..tick) : j \in SlicesAt(k, t) }

\* C15: when SJF or SJF-Priority leaves its loop the Gantt sequence is an
\* exact record of the execution: the slices are in time order, do not
\* overlap and are maximal, every tick at which a process executed lies in
\* exactly one slice, a slice of that process, every tick of a slice is a
\* tick at which its process executed, and the slices of a process add up
\* to its burst.
GanttIsExactRecord ==
    (pc \in {"SJF", "SJFP"} /\ tick >= totalBurstTime) =>
        /\ \A j \in 1..Len(gantt) : gantt[j].Start < gantt[j].Stop
        /\ \A j \in 2..Len(gantt) :
               /\ gantt[j - 1].Stop <= gantt[j].Start
               /\ (gantt[j - 1].Stop = gantt[j].Start) => gantt[j - 1].PID # gantt[j].PID
        /\ \A t \in 0..(tick - 1) :
               IF ran[t + 1] = 0
               THEN \A k \in 1..N : SlicesAt(k, t) = {}
               ELSE /\ Cardinality(SlicesAt(ran[t + 1], t)) = 1
                    /\ \A k \in 1..N : k # ran[t + 1] => SlicesAt(k, t) = {}
        /\ \A k \in 1..N : Cardinality(SliceTicks(k)) = processes[k].BurstDuration

\* The passes of Round-Robin that have visited process k.
Visits(k) == IF k < i THEN tick + 1 ELSE tick

\* C16: each visit of Round-Robin consumes min(3, r) of a remaining burst
\* r > 0 and skips a process with nothing left, so a process visited by n
\* passes has BurstDuration max(0, original - 3n); the loop stops after
\* 1000 passes, with BurstDuration 0 for every original burst of at most
\* 3000 and an unfinished process for every larger one.
RRConsumesQuantum ==
    pc = "RR" =>
        /\ tick <= 1000
        /\ \A k \in 1..N :
               processes[k].BurstDuration =
                   IF arg[k].BurstDuration > 3 * Visits(k)
                   THEN arg[k].BurstDuration - 3 * Visits(k) ELSE 0
        /\ tick >= RRPassCap =>
               /\ tick = 1000
               /\ \A k \in 1..N :
                      (arg[k].BurstDuration <= 3000) <=> (processes[k].BurstDuration = 0)

\* Round-Robin has stopped with one process of burst 3000 finished and one
\* of a larger burst left unfinished.
RRConsumesQuantumWitness ==
    /\ pc = "RR" /\ tick >= RRPassCap
    /\ \E k \in 1..N : arg[k].BurstDuration = 3000 /\ processes[k].BurstDuration = 0
    /\ \E k \in 1..N : arg[k].BurstDuration > 3000 /\ processes[k].BurstDuration > 0

\* C10 as amended: the single process has a burst of at most 3000, which
\* the 1000 passes can consume.
RRSingleProcessWithinCap ==
    (pc = "RR" /\ N = 1 /\ arg[1].BurstDuration <= 3000) => RRSingleProcess

\* Column col summed over the rows of the first k processes that have
\* nothing left.
RECURSIVE SumFinished(_, _)
SumFinished(col, k) ==
    IF k = 0 THEN 0
    ELSE SumFinished(col, k - 1) +
         (IF Written(k) /\ processes[k].BurstDuration = 0 THEN schedule[k][col] ELSE 0)

\* C17: in Round-Robin the wait and the turnaround of a process go into
\* the totals once, at the slice that leaves it nothing, and never at a
\* slice that leaves it unfinished: in every state the totals are the sums
\* of WaitingTime and TurnaroundTime over the rows of the finished
\* processes.
RRTotalsCountFinished ==
    pc = "RR" =>
        /\ totalWait = SumFinished(ColWait, N)
        /\ totalTurnaround = SumFinished(ColTurnaround, N)

\* Round-Robin has stopped after a process took several slices to finish
\* and another one, which waited, finished too.
RRTotalsCountFinishedWitness ==
    /\ pc = "RR" /\ tick >= RRPassCap /\ N > 1
    /\ \A k \in 1..N : processes[k].BurstDuration = 0
    /\ \E k \in 1..N : arg[k].BurstDuration > QuantumTime
    /\ totalWait > 0
    /\ totalTurnaround = SumFinished(ColTurnaround, N)

\* C18: in Round-Robin the Gantt slices tile the time line: the first one
\* starts at 0, each later one starts where the one before it stops, each
\* is 1 to 3 units long, and once every process has finished the last one
\* stops at the sum of the original bursts.
RRGanttTiles ==
    (pc = "RR" /\ Len(gantt) > 0) =>
        /\ gantt[1].Start = 0
        /\ \A j \in 2..Len(gantt) : gantt[j].Start = gantt[j - 1].Stop
        /\ \A j \in 1..Len(gantt) :
               gantt[j].Stop - gantt[j].Start \in 1..QuantumTime
        /\ (\A k \in 1..N : processes[k].BurstDuration = 0) =>
               gantt[Len(gantt)].Stop = SumBursts(arg)

\* Round-Robin has finished two processes in more slices than processes,
\* one of the slices shorter than the quantum.
RRGanttTilesWitness ==
    /\ pc = "RR" /\ N > 1 /\ Len(gantt) > N
    /\ \A k \in 1..N : processes[k].BurstDuration = 0
    /\ \E j \in 1..Len(gantt) : gantt[j].Stop - gantt[j].Start < QuantumTime
    /\ gantt[Len(gantt)].Stop = SumBursts(arg)

\* The remaining bursts of the first k processes, summed.
RECURSIVE SumRemaining(_)
SumRemaining(k) == IF k = 0 THEN 0 ELSE SumRemaining(k - 1) + RemainingBurst[k]

InTickLoop == pc \in {"SJF", "SJFP"}

\* What every iteration of the tick loop keeps: the horizon left is the
\* work left, an idle tick moves the horizon and no burst, a busy tick
\* takes one unit from one process, and a process has its row exactly
\* when it has nothing left.
HorizonStep ==
    /\ totalBurstTime - tick = SumRemaining(N)
    /\ (tick >= totalBurstTime) <=> (\A k \in 1..N : RemainingBurst[k] = 0)
    /\ \A k \in 1..N : Written(k) <=> RemainingBurst[k] = 0
    /\ tick' = tick + 1 =>
           IF ShortestJobIndex' = 0
           THEN /\ totalBurstTime' = totalBurstTime + 1
                /\ RemainingBurst' = RemainingBurst
           ELSE /\ totalBurstTime' = totalBurstTime
                /\ RemainingBurst' =
                       [RemainingBurst EXCEPT ![ShortestJobIndex'] = @ - 1]

\* C19: in SJF and SJF-Priority every iteration starts with
\* totalBurstTime - tick equal to the sum of the remaining bursts, an idle
\* tick extends the horizon by one and changes no remaining burst, a busy
\* tick decrements exactly one remaining burst by one, and the loop ends
\* exactly when every remaining burst is 0 and every process has its one
\* schedule row.
HorizonIsWorkLeft ==
    [][ InTickLoop =>
            /\ HorizonStep
            /\ pc' # pc => \A k \in 1..N : RemainingBurst[k] = 0 /\ Written(k) ]_vars

\* The same with the loop's end restricted to the end its condition
\* gives: this holds, so C19 fails only where the loop ends in the panic
\* of C5.
HorizonIsWorkLeftUnlessPanic ==
    [][ InTickLoop =>
            /\ HorizonStep
            /\ (pc' # pc /\ pc' # "panic") =>
                   \A k \in 1..N : RemainingBurst[k] = 0 /\ Written(k) ]_vars

\* The rows that will not be written again: all of First-come-first-serve's,
\* and in Round-Robin those of the processes with nothing left.
FinalRow(k) ==
    /\ Written(k)
    /\ pc = "RR" => processes[k].BurstDuration = 0

\* C20: in FCFS and Round-Robin no process is scheduled before it
\* arrives: every Gantt slice of a process starts at or after the
\* process's ArrivalTime, and every final schedule row has
\* WaitingTime >= 0.
NotBeforeArrival ==
    pc \in {"FCFS", "RR"} =>
        /\ \A j \in 1..Len(gantt) : \A k \in 1..N :
               gantt[j].PID = processes[k].ProcessID =>
                   gantt[j].Start >= processes[k].ArrivalTime
        /\ \A k \in 1..N : FinalRow(k) => schedule[k][ColWait] >= 0

====
